---- MODULE Spec2Model ----
(***************************************************************************)
(* A model of Final.py: the SalesDataAnalyzer session (one optional        *)
(* dataset, one optional chart handle) and the interactive command loop    *)
(* main() that owns it.  pandas / matplotlib / seaborn are modelled by     *)
(* what the calls made in Final.py do on small tables.                     *)
(***************************************************************************)
EXTENDS Integers, Sequences, FiniteSets, TLC

VARIABLES analyzer, pc, nextFig, saved, fs, ret, last

vars == <<analyzer, pc, nextFig, saved, fs, ret, last>>

(***************************************************************************)
(* Bounds of the model.                                                    *)
(***************************************************************************)
\* figures matplotlib may create in one run
MaxFigures == 2
\* rows of a generated CSV file (SessionSpec)
MaxRows == 2
\* rows a dataset may reach through combine_data
MaxTableRows == 4

(***************************************************************************)
(* Cells.  A cell is NaN/NaT (null), a number (a rational n/d, d > 0, in   *)
(* lowest terms), a string, or a datetime (n = yyyymmdd).                  *)
(***************************************************************************)
Null == [k |-> "null", n |-> 0, d |-> 1, s |-> ""]

Num(n, d) == [k |-> "num", n |-> n, d |-> d, s |-> ""]

Str(s) == [k |-> "str", n |-> 0, d |-> 1, s |-> s]

Dt(n) == [k |-> "dt", n |-> n, d |-> 1, s |-> ""]

IsNull(c) == c.k = "null"

RECURSIVE GCD(_, _)
GCD(a, b) == IF b = 0 THEN a ELSE GCD(b, a % b)

\* the rational n/d in lowest terms
Rat(n, d) == LET g == GCD(n, d) IN IF g = 0 THEN Num(0, 1) ELSE Num(n \div g, d \div g)

RAdd(a, b) == Rat(a.n * b.d + b.n * a.d, a.d * b.d)

(***************************************************************************)
(* Tables (DataFrames).  A row keeps its index label; cols is the set of   *)
(* column names.  NoData is self.data = None.                              *)
(***************************************************************************)
NoData == [isNone |-> TRUE, cols |-> {}, rows |-> <<>>]

DataFrame(cols, rows) == [isNone |-> FALSE, cols |-> cols, rows |-> rows]

NoPlot == [isNone |-> TRUE, fig |-> 0]

Figure(n) == [isNone |-> FALSE, fig |-> n]

Range(f) == {f[i] : i \in DOMAIN f}

\* the cells of column col, in row order
Column(df, col) == [i \in 1..Len(df.rows) |-> df.rows[i].c[col]]

AnyNull(df, col) == \E i \in 1..Len(df.rows) : IsNull(df.rows[i].c[col])

RowHasNull(r) == \E col \in DOMAIN r.c : IsNull(r.c[col])

HasStr(df, col) == \E i \in 1..Len(df.rows) : df.rows[i].c[col].k = "str"

HasNum(df, col) == \E i \in 1..Len(df.rows) : df.rows[i].c[col].k = "num"

\* the rows at the positions in keep, from position i on, in order
RECURSIVE KeepAt(_, _, _)
KeepAt(rows, i, keep) ==
  IF i > Len(rows) THEN <<>>
  ELSE IF i \in keep THEN <<rows[i]>> \o KeepAt(rows, i + 1, keep)
       ELSE KeepAt(rows, i + 1, keep)

(***************************************************************************)
(* Files.  A file on disk is a CSV text (header and rows of text cells,    *)
(* "" an empty field) or something read_csv cannot parse.                  *)
(***************************************************************************)
Csv(header, rows) == [kind |-> "csv", header |-> header, rows |-> rows]

Garbage == [kind |-> "garbage", header |-> <<>>, rows |-> <<>>]

\* the numeric literals of the files
NumText == ("1" :> 1) @@ ("2" :> 2) @@ ("3" :> 3) @@ ("4" :> 4) @@ ("5" :> 5)
           @@ ("6" :> 6) @@ ("7" :> 7) @@ ("8" :> 8)
           @@ ("2023" :> 2023) @@ ("2024" :> 2024)

\* the date literals pd.to_datetime parses
DateText == ("2024-01-05" :> 20240105) @@ ("2024-02-01" :> 20240201)

HeaderPos(header, col) == CHOOSE j \in 1..Len(header) : header[j] = col

\* pd.read_csv's type inference: a column is numeric when every non-empty
\* field is a number, otherwise its fields stay text; an empty field is NaN
ColumnIsNumeric(csv, j) ==
  \A i \in 1..Len(csv.rows) : csv.rows[i][j] = "" \/ csv.rows[i][j] \in DOMAIN NumText

ReadCell(csv, i, j) ==
  LET t == csv.rows[i][j] IN
  IF t = "" THEN Null
  ELSE IF ColumnIsNumeric(csv, j) THEN Num(NumText[t], 1)
  ELSE Str(t)

read_csv(csv) ==
  DataFrame(Range(csv.header),
            [i \in 1..Len(csv.rows) |->
               [idx |-> i - 1,
                c |-> [col \in Range(csv.header) |->
                         ReadCell(csv, i, HeaderPos(csv.header, col))]]])

\* pd.to_datetime raises on a string it cannot parse
DateParses(c) == c.k # "str" \/ c.s \in DOMAIN DateText

to_datetime_cell(c) ==
  IF c.k = "str" THEN Dt(DateText[c.s])
  ELSE IF c.k = "num" THEN Dt(c.n)
  ELSE c

\* self.data['Date'] = pd.to_datetime(self.data['Date'])
ParseDateColumn(df) ==
  [df EXCEPT !.rows = [i \in 1..Len(df.rows) |->
     [df.rows[i] EXCEPT !.c["Date"] = to_datetime_cell(@)]]]

\* Series.fillna(v, inplace=True) on column col
FillColumn(df, col, v) ==
  [df EXCEPT !.rows = [i \in 1..Len(df.rows) |->
     [df.rows[i] EXCEPT !.c[col] = IF IsNull(@) THEN v ELSE @]]]

\* DataFrame.fillna(v, inplace=True)
FillAll(df, v) ==
  [df EXCEPT !.rows = [i \in 1..Len(df.rows) |->
     [df.rows[i] EXCEPT !.c = [x \in DOMAIN df.rows[i].c |->
        IF IsNull(df.rows[i].c[x]) THEN v ELSE df.rows[i].c[x]]]]]

RECURSIVE SumCells(_)
SumCells(cells) ==
  IF cells = <<>> THEN Num(0, 1) ELSE RAdd(Head(cells), SumCells(Tail(cells)))

NonNull(cells) == SelectSeq(cells, LAMBDA c : ~IsNull(c))

\* Series.mean(): the mean of the non-missing values, NaN when there is none
Mean(df, col) ==
  LET xs == NonNull(Column(df, col)) IN
  IF xs = <<>> THEN Null
  ELSE LET s == SumCells(xs) IN Rat(s.n, s.d * Len(xs))

(***************************************************************************)
(* Ordering of cells for sort_values.  Strings compare as Python compares  *)
(* them; StrOrder lists the strings of the model in that order.            *)
(***************************************************************************)
StrOrder == <<"0", "1", "2", "2024-01-05", "2024-02-01", "3", "4", "5",
              "East", "West", "abc", "notadate">>

StrRank(s) == CHOOSE i \in 1..Len(StrOrder) : StrOrder[i] = s

CellLess(a, b) ==
  IF a.k = "str" THEN StrRank(a.s) < StrRank(b.s) ELSE a.n * b.d < b.n * a.d

\* '<' between a str and a number (or a Timestamp) raises TypeError
MixedKinds(df, col) ==
  \E i, j \in 1..Len(df.rows) :
     /\ ~IsNull(df.rows[i].c[col]) /\ ~IsNull(df.rows[j].c[col])
     /\ (df.rows[i].c[col].k = "str") # (df.rows[j].c[col].k = "str")

\* the position sort_values takes next: the first row no other row precedes
FirstPos(rows, col, ascending) ==
  CHOOSE i \in 1..Len(rows) :
     /\ \A j \in 1..Len(rows) :
          IF ascending THEN ~CellLess(rows[j].c[col], rows[i].c[col])
                       ELSE ~CellLess(rows[i].c[col], rows[j].c[col])
     /\ \A j \in 1..(i - 1) :
          IF ascending THEN CellLess(rows[i].c[col], rows[j].c[col])
                       ELSE CellLess(rows[j].c[col], rows[i].c[col])

RECURSIVE SortRows(_, _, _)
SortRows(rows, col, ascending) ==
  IF rows = <<>> THEN <<>>
  ELSE LET i == FirstPos(rows, col, ascending) IN
       <<rows[i]>> \o SortRows(KeepAt(rows, 1, (1..Len(rows)) \ {i}), col, ascending)

\* DataFrame.sort_values(by=col, ascending=..., inplace=True): a stable sort
\* of the rows with a value, the rows with a missing value last
sort_values(df, col, ascending) ==
  LET n      == Len(df.rows)
      valued == KeepAt(df.rows, 1, {i \in 1..n : ~IsNull(df.rows[i].c[col])})
      nulls  == KeepAt(df.rows, 1, {i \in 1..n : IsNull(df.rows[i].c[col])})
  IN [df EXCEPT !.rows = SortRows(valued, col, ascending) \o nulls]

\* DataFrame.dropna(inplace=True)
dropna(df) ==
  [df EXCEPT !.rows = KeepAt(df.rows, 1, {i \in 1..Len(df.rows) : ~RowHasNull(df.rows[i])})]

\* pd.concat([a, b], ignore_index=True): rows appended, columns united, a
\* column a row does not have is NaN, the index renumbered from 0
concat(a, b) ==
  LET cols == a.cols \cup b.cols
      all  == a.rows \o b.rows
  IN DataFrame(cols,
       [i \in 1..Len(all) |->
          [idx |-> i - 1,
           c |-> [x \in cols |-> IF x \in DOMAIN all[i].c THEN all[i].c[x] ELSE Null]]])

(***************************************************************************)
(* The session: SalesDataAnalyzer.  A method returns the session after the *)
(* call, the exception that escaped it ("none" when it returned), and the  *)
(* last line it printed.                                                   *)
(***************************************************************************)
Session(data, plot) == [isNone |-> FALSE, data |-> data, plot |-> plot]

NoAnalyzer == [isNone |-> TRUE, data |-> NoData, plot |-> NoPlot]

Out(self, exc, report) == [self |-> self, exc |-> exc, report |-> report]

NoDataset(self) == Out(self, "none", "No dataset loaded!")

load_data(self, file_path, files) ==
  IF file_path \notin DOMAIN files
  THEN Out(self, "none", "Error: File not found.")
  ELSE IF files[file_path].kind # "csv"
  THEN Out(self, "none", "Error loading data")
  ELSE LET df == read_csv(files[file_path]) IN
       IF "Date" \in df.cols
       THEN IF \A i \in 1..Len(df.rows) : DateParses(df.rows[i].c["Date"])
            THEN Out([self EXCEPT !.data = ParseDateColumn(df)], "none",
                     "Dataset loaded successfully!")
            ELSE Out([self EXCEPT !.data = df], "none", "Error loading data")
       ELSE Out([self EXCEPT !.data = df], "none", "Dataset loaded successfully!")

\* __init__
SalesDataAnalyzer(file_path, files) ==
  LET self == Session(NoData, NoPlot) IN
  IF file_path # "" THEN load_data(self, file_path, files) ELSE Out(self, "none", "")

explore_data(self, choice) ==
  IF self.data.isNone THEN NoDataset(self)
  ELSE CASE choice = 1 -> Out(self, "none", "First 5 rows:")
         [] choice = 2 -> Out(self, "none", "Last 5 rows:")
         [] choice = 3 -> Out(self, "none", "Column names:")
         [] choice = 4 -> Out(self, "none", "Data types:")
         [] choice = 5 -> Out(self, "none", "Basic info:")
         [] OTHER -> Out(self, "none", "")

\* the loop of clean_data(2) with the second column's name misspelt
FillMeanStep_sales_only(o, col) ==
  IF o.exc # "none" \/ col = "Profit" THEN o
  ELSE IF col \in o.self.data.cols /\ AnyNull(o.self.data, col)
  THEN IF HasStr(o.self.data, col) THEN Out(o.self, "TypeError", "")
       ELSE Out([o.self EXCEPT !.data = FillColumn(@, col, Mean(@, col))], "none", "")
  ELSE o

\* one round of the loop of clean_data(2): Series.mean() of a column holding
\* a str raises TypeError
FillMeanStep(o, col) ==
  IF o.exc # "none" THEN o
  ELSE IF col \in o.self.data.cols /\ AnyNull(o.self.data, col)
  THEN IF HasStr(o.self.data, col) THEN Out(o.self, "TypeError", "")
       ELSE Out([o.self EXCEPT !.data = FillColumn(@, col, Mean(@, col))], "none", "")
  ELSE o

clean_data(self, choice, value) ==
  IF self.data.isNone THEN NoDataset(self)
  ELSE CASE choice = 1 ->
              IF \A i \in 1..Len(self.data.rows) : ~RowHasNull(self.data.rows[i])
              THEN Out(self, "none", "No missing values found!")
              ELSE Out(self, "none", "Rows with missing values:")
         [] choice = 2 ->
              LET o == FillMeanStep(FillMeanStep(Out(self, "none", ""), "Sales"), "Profit") IN
              IF o.exc # "none" THEN o
              ELSE Out(o.self, "none", "Missing values in numerical columns filled with mean.")
         [] choice = 3 ->
              Out([self EXCEPT !.data = dropna(@)], "none", "Dropped rows with missing values.")
         [] choice = 4 ->
              Out([self EXCEPT !.data = FillAll(@, Str(value))], "none", "Missing values replaced.")
         [] OTHER -> Out(self, "none", "")

\* self.data[col] with col not a column raises KeyError
Missing(self, cols) == \E x \in cols : x \notin self.data.cols

\* an object column holding both str and numbers cannot be summed
MixedSum(self, col) == HasStr(self.data, col) /\ HasNum(self.data, col)

mathematical_operations(self) ==
  IF self.data.isNone THEN NoDataset(self)
  ELSE IF Missing(self, {"Sales", "Profit"}) THEN Out(self, "KeyError", "")
  ELSE IF HasStr(self.data, "Profit") \/ MixedSum(self, "Sales")
  THEN Out(self, "TypeError", "")
  ELSE Out(self, "none", "Average Profit:")

combine_data(self, other_file_path, files) ==
  IF self.data.isNone THEN NoDataset(self)
  ELSE IF other_file_path \notin DOMAIN files \/ files[other_file_path].kind # "csv"
  THEN Out(self, "none", "Error combining data")
  ELSE Out([self EXCEPT !.data = concat(@, read_csv(files[other_file_path]))], "none",
           "Data combined successfully!")

\* groupby(criterion, dropna=False): the rows with a missing key are a group
split_dfs_keeps_missing(df, criterion) ==
  LET n    == Len(df.rows)
      keys == {df.rows[i].c[criterion] : i \in 1..n}
  IN [key \in keys |-> KeepAt(df.rows, 1, {i \in 1..n : df.rows[i].c[criterion] = key})]

\* {name: group for name, group in self.data.groupby(criterion)}: groupby
\* leaves out the rows whose key is missing
split_dfs(df, criterion) ==
  LET n    == Len(df.rows)
      keys == {df.rows[i].c[criterion] : i \in {j \in 1..n : ~IsNull(df.rows[j].c[criterion])}}
  IN [key \in keys |-> KeepAt(df.rows, 1, {i \in 1..n : df.rows[i].c[criterion] = key})]

NoRet == [isNone |-> TRUE, groups |-> <<>>]

\* the value split_data returns
split_data_return(self, criterion) ==
  IF self.data.isNone \/ criterion \notin self.data.cols THEN NoRet
  ELSE [isNone |-> FALSE, groups |-> split_dfs(self.data, criterion)]

split_data(self, criterion) ==
  IF self.data.isNone THEN NoDataset(self)
  ELSE IF criterion \in self.data.cols THEN Out(self, "none", "Data split into DataFrames.")
  ELSE Out(self, "none", "Column not found!")

search_sort_filter(self, operation, column, value, ascending) ==
  IF self.data.isNone THEN NoDataset(self)
  ELSE CASE operation = 1 ->
              IF column \notin self.data.cols THEN Out(self, "KeyError", "")
              ELSE IF ~HasStr(self.data, column) THEN Out(self, "AttributeError", "")
              ELSE Out(self, "none", "Search results:")
         [] operation = 2 ->
              IF column \notin self.data.cols THEN Out(self, "KeyError", "")
              ELSE IF MixedKinds(self.data, column) THEN Out(self, "TypeError", "")
              ELSE Out([self EXCEPT !.data = sort_values(@, column, ascending)], "none",
                       "Data sorted:")
         [] operation = 3 ->
              IF column \notin self.data.cols THEN Out(self, "KeyError", "")
              ELSE Out(self, "none", "Filtered data:")
         [] OTHER -> Out(self, "none", "")

aggregate_functions(self) ==
  IF self.data.isNone THEN NoDataset(self)
  ELSE IF "Sales" \notin self.data.cols THEN Out(self, "KeyError", "")
  ELSE IF HasStr(self.data, "Sales") THEN Out(self, "TypeError", "")
  ELSE IF "Profit" \notin self.data.cols THEN Out(self, "KeyError", "")
  ELSE IF MixedSum(self, "Profit") THEN Out(self, "TypeError", "")
  ELSE IF "SalesID" \notin self.data.cols THEN Out(self, "KeyError", "")
  ELSE Out(self, "none", "Count of Records:")

statistical_analysis(self) ==
  IF self.data.isNone THEN NoDataset(self)
  ELSE IF Missing(self, {"Sales", "Profit"}) THEN Out(self, "KeyError", "")
  ELSE IF HasStr(self.data, "Profit") \/ HasStr(self.data, "Sales")
  THEN Out(self, "TypeError", "")
  ELSE Out(self, "none", "25th Percentile of Sales:")

\* pivot_table sums Sales within each (Region, Year) group; a row whose Region
\* or Year is missing is in no group; a group holding both a str and a number
\* cannot be summed
MixedGroupSum(df) ==
  \E i, j \in 1..Len(df.rows) :
    /\ ~IsNull(df.rows[i].c["Region"]) /\ ~IsNull(df.rows[i].c["Year"])
    /\ df.rows[i].c["Region"] = df.rows[j].c["Region"]
    /\ df.rows[i].c["Year"] = df.rows[j].c["Year"]
    /\ df.rows[i].c["Sales"].k = "str" /\ df.rows[j].c["Sales"].k = "num"

create_pivot_table(self) ==
  IF self.data.isNone THEN NoDataset(self)
  ELSE IF Missing(self, {"Sales", "Region", "Year"}) THEN Out(self, "KeyError", "")
  ELSE IF MixedGroupSum(self.data) THEN Out(self, "TypeError", "")
  ELSE Out(self, "none", "Pivot Table (Sales by Region and Year):")

(***************************************************************************)
(* Charts.                                                                 *)
(***************************************************************************)
\* the columns a chart kind reads
PlotColumns(plot_type, x_col, y_col) ==
  CASE plot_type \in {1, 4, 5, 7} -> {"Region", "Sales"}
    [] plot_type \in {2, 9} -> {"Date", "Sales"}
    [] plot_type = 3 -> {x_col, y_col}
    [] plot_type = 6 -> {"Sales"}
    [] plot_type = 8 -> {"Year", "Region", "Sales"}
    [] OTHER -> {}

\* seaborn reports a name that is no column with ValueError; pandas raises KeyError
MissingColumnError(plot_type) == IF plot_type \in {1, 5, 7} THEN "ValueError" ELSE "KeyError"

\* what the plotting library may do with the data once the columns exist
LibOutcomes == {"none", "ValueError", "TypeError"}

\* data whose rendering depends on the plotting library's version: text in
\* the Sales column, or nothing to draw
LibDecides(self, plot_type) ==
  /\ plot_type \in (1..9) \ {3}
  /\ \/ HasStr(self.data, "Sales")
     \/ plot_type # 6 /\ self.data.rows = <<>>
     \/ plot_type = 8 /\ \A i \in 1..Len(self.data.rows) :
                            IsNull(self.data.rows[i].c["Year"]) \/ IsNull(self.data.rows[i].c["Region"])

\* the columns exist and the outcome is the library's
PlotRuns(self, plot_type, x_col, y_col) ==
  /\ ~Missing(self, PlotColumns(plot_type, x_col, y_col))
  /\ LibDecides(self, plot_type)

\* n is the figure plt.figure() creates, lib the library's outcome where
\* LibDecides
visualize_data(self, plot_type, x_col, y_col, n, lib) ==
  IF self.data.isNone THEN NoDataset(self)
  ELSE LET drawn == [self EXCEPT !.plot = Figure(n)] IN
       IF Missing(self, PlotColumns(plot_type, x_col, y_col))
       THEN Out(drawn, MissingColumnError(plot_type), "")
       ELSE IF PlotRuns(self, plot_type, x_col, y_col) /\ lib # "none" THEN Out(drawn, lib, "")
       ELSE Out(drawn, "none", "Plot displayed successfully!")

FileName(dir, stem, ext) == [dir |-> dir, stem |-> stem, ext |-> ext]

NoFile == FileName("", "", "")

\* file_name.split('.')[-1]
FormatOf(file_name) == IF file_name.ext = "" THEN file_name.stem ELSE file_name.ext

\* the formats savefig writes
SupportedFormats == {"png", "pdf", "svg", "jpg"}

\* the directories os.makedirs can create
CreatableDirs == {"charts"}

NoSaved == [dirs |-> {}, files |-> {}]

SaveOut(self, report, disk, wrote) ==
  [self |-> self, exc |-> "none", report |-> report, saved |-> disk, wrote |-> wrote]

\* save_visualization without the final self.plot = None
save_visualization_keeps_plot(self, file_name, disk) ==
  IF self.plot.isNone
  THEN SaveOut(self, "No plot to save! Generate a plot first using option 6.", disk, FALSE)
  ELSE LET directory == file_name.dir
           mk == directory # "" /\ directory \notin disk.dirs
       IN IF mk /\ directory \notin CreatableDirs
          THEN SaveOut(self, "Error saving visualization", disk, FALSE)
          ELSE LET made == IF mk THEN [disk EXCEPT !.dirs = @ \cup {directory}] ELSE disk IN
               IF FormatOf(file_name) \notin SupportedFormats
               THEN SaveOut(self, "Error saving visualization", made, FALSE)
               ELSE SaveOut(self, "Visualization saved successfully!",
                            [made EXCEPT !.files = @ \cup {file_name}], TRUE)

\* save_visualization releasing the plot in a finally clause, on failure too
save_visualization_always_clears(self, file_name, disk) ==
  IF self.plot.isNone
  THEN SaveOut(self, "No plot to save! Generate a plot first using option 6.", disk, FALSE)
  ELSE LET directory == file_name.dir
           mk == directory # "" /\ directory \notin disk.dirs
           cleared == [self EXCEPT !.plot = NoPlot]
       IN IF mk /\ directory \notin CreatableDirs
          THEN SaveOut(cleared, "Error saving visualization", disk, FALSE)
          ELSE LET made == IF mk THEN [disk EXCEPT !.dirs = @ \cup {directory}] ELSE disk IN
               IF FormatOf(file_name) \notin SupportedFormats
               THEN SaveOut(cleared, "Error saving visualization", made, FALSE)
               ELSE SaveOut(cleared, "Visualization saved successfully!",
                            [made EXCEPT !.files = @ \cup {file_name}], TRUE)

save_visualization(self, file_name, disk) ==
  IF self.plot.isNone
  THEN SaveOut(self, "No plot to save! Generate a plot first using option 6.", disk, FALSE)
  ELSE LET directory == file_name.dir
           mk == directory # "" /\ directory \notin disk.dirs
       IN IF mk /\ directory \notin CreatableDirs
          THEN SaveOut(self, "Error saving visualization", disk, FALSE)
          ELSE LET made == IF mk THEN [disk EXCEPT !.dirs = @ \cup {directory}] ELSE disk IN
               IF FormatOf(file_name) \notin SupportedFormats
               THEN SaveOut(self, "Error saving visualization", made, FALSE)
               ELSE SaveOut([self EXCEPT !.plot = NoPlot], "Visualization saved successfully!",
                            [made EXCEPT !.files = @ \cup {file_name}], TRUE)

(***************************************************************************)
(* The environment: the files on disk and what the user may type.          *)
(***************************************************************************)
SalesCsv ==
  Csv(<<"SalesID", "Date", "Region", "Sales", "Profit", "Year">>,
      << <<"1", "2024-01-05", "East", "2", "3", "2023">>,
         <<"2", "2024-02-01", "", "1", "", "2024">>,
         <<"3", "2024-02-01", "West", "2", "1", "2024">> >>)

\* a one-row file with every column
SmallCsv ==
  Csv(<<"SalesID", "Date", "Region", "Sales", "Profit", "Year">>,
      << <<"4", "2024-01-05", "West", "3", "2", "2023">> >>)

\* a file whose Date column does not parse, without Region, Profit and Year
BadDateCsv == Csv(<<"SalesID", "Date", "Sales">>, << <<"5", "notadate", "4">> >>)

\* a file to combine, without the Region, Sales and Year columns
ReturnsCsv ==
  Csv(<<"SalesID", "Profit", "Date">>,
      << <<"6", "2", "2024-02-01">>, <<"7", "1", "2024-01-05">>,
         <<"8", "", "2024-01-05">> >>)

Disk == ("sales.csv" :> SalesCsv) @@ ("small.csv" :> SmallCsv)
        @@ ("baddate.csv" :> BadDateCsv) @@ ("returns.csv" :> ReturnsCsv)
        @@ ("empty.csv" :> Garbage)

\* what the user may type as the dataset's path; missing.csv does not exist
Paths == {"sales.csv", "small.csv", "baddate.csv", "empty.csv", "missing.csv", ""}

\* what the user may type as the path of the file to combine
OtherPaths == {"returns.csv", "empty.csv", "missing.csv"}

\* int(input(...)): the texts the user may type at a menu, "x" not a number
IntText == ("1" :> 1) @@ ("2" :> 2) @@ ("3" :> 3) @@ ("4" :> 4) @@ ("5" :> 5)
           @@ ("6" :> 6) @@ ("7" :> 7) @@ ("8" :> 8) @@ ("9" :> 9) @@ ("10" :> 10)

MenuInputs == DOMAIN IntText \cup {"x"}

IsInt(s) == s \in DOMAIN IntText

UserColumns == {"Sales", "Nope"}

FillValues == {"0"}

FileNames == {FileName("charts", "plot", "png"), FileName("", "plot", ""),
              FileName("/proc/none", "plot", "png")}

(***************************************************************************)
(* main(): one action per branch of the loop body.  last records what the  *)
(* iteration read, which session method it called, the exception that left *)
(* the method and the last line printed.                                   *)
(***************************************************************************)
Last(choice, sub, op, called, exc, report, wrote, a1, a2, file) ==
  [choice |-> choice, sub |-> sub, op |-> op, called |-> called, exc |-> exc,
   report |-> report, wrote |-> wrote, a1 |-> a1, a2 |-> a2, file |-> file,
   hadPlot |-> ~analyzer.plot.isNone]

NoLast == [choice |-> "", sub |-> "", op |-> "", called |-> "none", exc |-> "none",
           report |-> "", wrote |-> FALSE, a1 |-> "", a2 |-> "", file |-> NoFile,
           hadPlot |-> FALSE]

InvalidNumber == "Invalid input! Please enter a number."

\* the loop body ends without a session call
Reported(choice, sub, op, report) ==
  /\ last' = Last(choice, sub, op, "none", "none", report, FALSE, "", "", NoFile)
  /\ UNCHANGED <<analyzer, pc, nextFig, saved, fs, ret>>

\* the loop body called a session method; catches: the call is inside a
\* try ... except ValueError
Called(choice, sub, op, called, o, catches, a1, a2) ==
  LET caught == catches /\ o.exc = "ValueError" IN
  /\ analyzer' = o.self
  /\ pc' = IF o.exc = "none" \/ caught THEN "running" ELSE "crashed"
  /\ last' = Last(choice, sub, op, called, o.exc,
                  IF caught THEN InvalidNumber ELSE o.report, FALSE, a1, a2, NoFile)
  /\ UNCHANGED <<saved, fs, ret>>

\* the guard without its second test
NotLoaded_no_data_test == analyzer.isNone

NotLoaded == analyzer.isNone \/ analyzer.data.isNone

InvalidInput ==
  /\ pc = "running"
  /\ \E choice \in MenuInputs :
       /\ ~IsInt(choice)
       /\ Reported(choice, "", "", InvalidNumber)

\* Load calling load_data on the session already there
LoadDataset_reuses_session ==
  /\ pc = "running"
  /\ \E choice \in MenuInputs, file_path \in Paths :
       /\ IsInt(choice) /\ IntText[choice] = 1
       /\ LET o == IF analyzer.isNone \/ file_path = ""
                   THEN SalesDataAnalyzer(file_path, fs)
                   ELSE load_data(analyzer, file_path, fs) IN
          /\ Called(choice, "", "", "__init__", o, FALSE, file_path, "")
          /\ UNCHANGED nextFig

LoadDataset ==
  /\ pc = "running"
  /\ \E choice \in MenuInputs, file_path \in Paths :
       /\ IsInt(choice) /\ IntText[choice] = 1
       /\ LET o == SalesDataAnalyzer(file_path, fs) IN
          /\ Called(choice, "", "", "__init__", o, FALSE, file_path, "")
          /\ UNCHANGED nextFig

ExploreData ==
  /\ pc = "running"
  /\ \E choice \in MenuInputs :
       /\ IsInt(choice) /\ IntText[choice] = 2
       /\ IF NotLoaded THEN Reported(choice, "", "", "No dataset loaded!")
          ELSE \E sub \in MenuInputs :
                 IF ~IsInt(sub) THEN Reported(choice, sub, "", InvalidNumber)
                 ELSE /\ Called(choice, sub, "", "explore_data",
                                explore_data(analyzer, IntText[sub]), TRUE, "", "")
                      /\ UNCHANGED nextFig

DataFrameOperations ==
  /\ pc = "running"
  /\ \E choice \in MenuInputs :
       /\ IsInt(choice) /\ IntText[choice] = 3
       /\ IF NotLoaded THEN Reported(choice, "", "", "No dataset loaded!")
          ELSE \E sub \in MenuInputs :
                 IF ~IsInt(sub) THEN Reported(choice, sub, "", InvalidNumber)
                 ELSE /\ UNCHANGED nextFig
                      /\ CASE IntText[sub] = 1 ->
                                Called(choice, sub, "", "mathematical_operations",
                                       mathematical_operations(analyzer), TRUE, "", "")
                           [] IntText[sub] = 2 ->
                                \E other_file \in OtherPaths :
                                  LET o == combine_data(analyzer, other_file, fs) IN
                                  /\ Len(o.self.data.rows) <= MaxTableRows
                                  /\ Called(choice, sub, "", "combine_data", o, TRUE, other_file, "")
                           [] IntText[sub] = 3 ->
                                \E criterion \in UserColumns :
                                  Called(choice, sub, "", "split_data",
                                         split_data(analyzer, criterion), TRUE, criterion, "")
                           [] IntText[sub] = 4 ->
                                \E op \in MenuInputs :
                                  IF ~IsInt(op)
                                  THEN /\ Reported(choice, sub, op, InvalidNumber)
                                  ELSE \E column \in IF IntText[op] \in 1..3 THEN UserColumns ELSE {""} :
                                       \E ascending \in IF IntText[op] = 2 THEN BOOLEAN ELSE {FALSE} :
                                         Called(choice, sub, op, "search_sort_filter",
                                                search_sort_filter(analyzer, IntText[op], column,
                                                                   "East", ascending),
                                                TRUE, column, "")
                           [] IntText[sub] = 5 ->
                                Called(choice, sub, "", "aggregate_functions",
                                       aggregate_functions(analyzer), TRUE, "", "")
                           [] IntText[sub] = 6 ->
                                Called(choice, sub, "", "create_pivot_table",
                                       create_pivot_table(analyzer), TRUE, "", "")
                           [] OTHER ->
                                /\ analyzer' = analyzer /\ pc' = pc
                                /\ last' = Last(choice, sub, "", "none", "none",
                                     "Invalid choice! Please select a number between 1 and 6.",
                                     FALSE, "", "", NoFile)
                                /\ UNCHANGED <<saved, fs, ret>>

HandleMissingData ==
  /\ pc = "running"
  /\ \E choice \in MenuInputs :
       /\ IsInt(choice) /\ IntText[choice] = 4
       /\ IF NotLoaded THEN Reported(choice, "", "", "No dataset loaded!")
          ELSE \E sub \in MenuInputs :
                 IF ~IsInt(sub) THEN Reported(choice, sub, "", InvalidNumber)
                 ELSE \E value \in FillValues :
                        /\ Called(choice, sub, "", "clean_data",
                                  clean_data(analyzer, IntText[sub], value), TRUE,
                                  IF IntText[sub] = 4 THEN value ELSE "", "")
                        /\ UNCHANGED nextFig

DescriptiveStatistics ==
  /\ pc = "running"
  /\ \E choice \in MenuInputs :
       /\ IsInt(choice) /\ IntText[choice] = 5
       /\ IF NotLoaded THEN Reported(choice, "", "", "No dataset loaded!")
          ELSE /\ Called(choice, "", "", "statistical_analysis",
                         statistical_analysis(analyzer), FALSE, "", "")
               /\ UNCHANGED nextFig

DataVisualization ==
  /\ pc = "running"
  /\ \E choice \in MenuInputs :
       /\ IsInt(choice) /\ IntText[choice] = 6
       /\ IF NotLoaded THEN Reported(choice, "", "", "No dataset loaded!")
          ELSE \E sub \in MenuInputs :
                 IF ~IsInt(sub) THEN Reported(choice, sub, "", InvalidNumber)
                 ELSE \E x_col \in IF IntText[sub] = 3 THEN UserColumns ELSE {""} :
                      \E y_col \in IF IntText[sub] = 3 THEN UserColumns ELSE {""} :
                      \E lib \in IF PlotRuns(analyzer, IntText[sub], x_col, y_col)
                                 THEN LibOutcomes ELSE {"none"} :
                        /\ nextFig <= MaxFigures
                        /\ Called(choice, sub, "", "visualize_data",
                                  visualize_data(analyzer, IntText[sub], x_col, y_col, nextFig, lib),
                                  TRUE, x_col, y_col)
                        /\ nextFig' = nextFig + 1

SaveVisualization ==
  /\ pc = "running"
  /\ \E choice \in MenuInputs :
       /\ IsInt(choice) /\ IntText[choice] = 7
       /\ IF analyzer.isNone
          THEN Reported(choice, "", "", "No analyzer instance created! Load a dataset first.")
          ELSE \E file_name \in FileNames :
                 LET o == save_visualization(analyzer, file_name, saved) IN
                 /\ analyzer' = o.self
                 /\ saved' = o.saved
                 /\ last' = Last(choice, "", "", "save_visualization", o.exc, o.report,
                                 o.wrote, "", "", file_name)
                 /\ UNCHANGED <<pc, nextFig, fs, ret>>

Exit ==
  /\ pc = "running"
  /\ \E choice \in MenuInputs :
       /\ IsInt(choice) /\ IntText[choice] = 8
       /\ pc' = "exited"
       /\ last' = Last(choice, "", "", "none", "none", "Exiting the program. Goodbye!",
                       FALSE, "", "", NoFile)
       /\ UNCHANGED <<analyzer, nextFig, saved, fs, ret>>

InvalidChoice ==
  /\ pc = "running"
  /\ \E choice \in MenuInputs :
       /\ IsInt(choice) /\ IntText[choice] \notin 1..8
       /\ Reported(choice, "", "", "Invalid choice! Please select a number between 1 and 8.")

Init ==
  /\ analyzer = NoAnalyzer
  /\ pc = "running"
  /\ nextFig = 1
  /\ saved = NoSaved
  /\ fs = Disk
  /\ ret = NoRet
  /\ last = NoLast

Next ==
  \/ InvalidInput
  \/ LoadDataset
  \/ ExploreData
  \/ DataFrameOperations
  \/ HandleMissingData
  \/ DescriptiveStatistics
  \/ DataVisualization
  \/ SaveVisualization
  \/ Exit
  \/ InvalidChoice

Spec == Init /\ [][Next]_vars

(***************************************************************************)
(* The session on its own: a session constructed on a generated CSV file,  *)
(* then calls of clean_data and split_data.                                *)
(***************************************************************************)
GenHeaders == {<<"Region", "Sales", "Profit">>, <<"Region", "Profit">>}

\* the fields a generated file may hold in a column; "abc" makes Sales text
GenText(col) ==
  CASE col = "Region" -> {"East", "West", ""}
    [] col = "Sales" -> {"1", "2", "", "abc"}
    [] col = "Profit" -> {"3", ""}

GenRows(header) ==
  {r \in [1..Len(header) -> {"East", "West", "", "1", "2", "3", "abc"}] :
     \A j \in 1..Len(header) : r[j] \in GenText(header[j])}

GenCsv ==
  UNION {{Csv(header, rows) : rows \in UNION {[1..n -> GenRows(header)] : n \in 0..MaxRows}} :
         header \in GenHeaders}

GenColumns == {"Region", "Sales", "Profit", "Nope"}

SessionInit ==
  /\ \E csv \in GenCsv :
       /\ fs = ("gen.csv" :> csv)
       /\ analyzer = SalesDataAnalyzer("gen.csv", ("gen.csv" :> csv)).self
  /\ pc = "running"
  /\ nextFig = 1
  /\ saved = NoSaved
  /\ ret = NoRet
  /\ last = NoLast

\* clean_data(2) or clean_data(3) called on the session
CallCleanData ==
  /\ pc = "running"
  /\ \E sub \in {"2", "3"} :
       LET o == clean_data(analyzer, IntText[sub], "") IN
       /\ analyzer' = o.self
       /\ pc' = IF o.exc = "none" THEN "running" ELSE "crashed"
       /\ ret' = NoRet
       /\ last' = Last("", sub, "", "clean_data", o.exc, o.report, FALSE, "", "", NoFile)
       /\ UNCHANGED <<nextFig, saved, fs>>

\* split_data(criterion) called on the session; ret is what it returned
CallSplitData ==
  /\ pc = "running"
  /\ \E criterion \in GenColumns :
       LET o == split_data(analyzer, criterion) IN
       /\ analyzer' = o.self
       /\ ret' = split_data_return(analyzer, criterion)
       /\ last' = Last("", "", "", "split_data", o.exc, o.report, FALSE, criterion, "", NoFile)
       /\ UNCHANGED <<pc, nextFig, saved, fs>>

SessionNext ==
  \/ CallCleanData
  \/ CallSplitData

SessionSpec == SessionInit /\ [][SessionNext]_vars

(***************************************************************************)
(* Properties.                                                             *)
(***************************************************************************)
NothingToSave == "No plot to save! Generate a plot first using option 6."

SaveError == "Error saving visualization"

\* the destination can be written: its directory exists or can be created,
\* and its extension names a format savefig writes
Writable(file_name, disk) ==
  /\ file_name.dir = "" \/ file_name.dir \in disk.dirs \/ file_name.dir \in CreatableDirs
  /\ FormatOf(file_name) \in SupportedFormats

\* this step is save_visualization right after a visualize_data that displayed its plot
SaveAfterVisualize ==
  /\ last.called = "visualize_data" /\ last.exc = "none"
  /\ last.report = "Plot displayed successfully!"
  /\ last'.called = "save_visualization"

\* this step is save_visualization right after a save_visualization that wrote the file
SaveAfterSave ==
  /\ last.called = "save_visualization" /\ last.wrote
  /\ last'.called = "save_visualization"

SecondSaveIsNoOp ==
  SaveAfterSave =>
    /\ last'.report = NothingToSave /\ ~last'.wrote
    /\ saved' = saved /\ analyzer'.plot.isNone

\* C1 as stated: save_chart right after a successful visualize succeeds and
\* clears the chart handle, and a second consecutive save_chart reports
\* nothing to save, writes no file and leaves the chart absent.
C1_SaveAlwaysSucceeds ==
  [][ /\ SaveAfterVisualize =>
           /\ last'.wrote /\ last'.file \in saved'.files
           /\ analyzer'.plot.isNone
      /\ SecondSaveIsNoOp ]_vars

\* C1 amended: save_chart right after a successful visualize, to a
\* destination that can be written, succeeds (the file is written) and
\* clears the chart handle; a second consecutive save_chart reports nothing
\* to save, writes no file and leaves the chart absent.
C1_SaveAfterVisualizeClears ==
  [][ /\ (SaveAfterVisualize /\ Writable(last'.file, saved)) =>
           /\ last'.wrote /\ last'.file \in saved'.files
           /\ last'.report = "Visualization saved successfully!"
           /\ analyzer'.plot.isNone
      /\ SecondSaveIsNoOp ]_vars

\* the only figure ever created was saved, and a further save found nothing
C1_Witness ==
  /\ last.called = "save_visualization" /\ last.report = NothingToSave
  /\ ~last.hadPlot /\ analyzer.plot.isNone
  /\ nextFig = 2 /\ saved.files # {}

\* C2 as stated: with no dataset loaded, every selection other than Load and
\* Exit (2..7, Save Visualization included) is refused with the 'no dataset'
\* report and no session method is called.
C2_AllRefusedAlike ==
  [][ (/\ pc = "running"
       /\ analyzer.isNone \/ analyzer.data.isNone
       /\ last'.choice \in {"2", "3", "4", "5", "6", "7"}) =>
        /\ last'.report = "No dataset loaded!"
        /\ last'.called = "none" ]_vars

\* C2 amended: with no dataset loaded, selections 2..6 are refused with the
\* 'no dataset' report and no session method is called; Save Visualization
\* is refused with its own report when there is no session, and with a
\* session whose load failed it calls save_visualization, which reports that
\* there is no plot to save.  In each case nothing is written and the
\* session is unchanged.
C2_RefusedWithoutDataset ==
  [][ (/\ pc = "running"
       /\ analyzer.isNone \/ analyzer.data.isNone
       /\ last'.choice \in {"2", "3", "4", "5", "6", "7"}) =>
        /\ analyzer' = analyzer /\ saved' = saved /\ pc' = "running" /\ ~last'.wrote
        /\ IF last'.choice # "7"
           THEN last'.report = "No dataset loaded!" /\ last'.called = "none"
           ELSE IF analyzer.isNone
           THEN /\ last'.report = "No analyzer instance created! Load a dataset first."
                /\ last'.called = "none"
           ELSE /\ last'.report = NothingToSave
                /\ last'.called = "save_visualization" ]_vars

\* a session whose load failed, and a selection refused
C2_Witness ==
  /\ ~analyzer.isNone /\ analyzer.data.isNone
  /\ last.choice \in {"2", "3", "4", "5", "6"}
  /\ last.report = "No dataset loaded!" /\ last.called = "none"

LoadErrors == {"Error: File not found.", "Error loading data"}

\* C3 as stated: when load reports an error, the session's dataset is what it
\* was before the call (absent: main loads into a fresh session) and no
\* exception escapes.
C3_LoadErrorKeepsDataset ==
  [][ (last'.called = "__init__" /\ last'.report \in LoadErrors) =>
        /\ analyzer'.data = NoData
        /\ last'.exc = "none" /\ pc' = "running" ]_vars

\* the columns the call recorded in l reads
ReferencedColumns(l) ==
  CASE l.called = "search_sort_filter" /\ l.op \in {"1", "2", "3"} -> {l.a1}
    [] l.called = "split_data" -> {l.a1}
    [] l.called = "mathematical_operations" -> {"Sales", "Profit"}
    [] l.called = "aggregate_functions" -> {"Sales", "Profit", "SalesID"}
    [] l.called = "statistical_analysis" -> {"Sales", "Profit"}
    [] l.called = "create_pivot_table" -> {"Sales", "Region", "Year"}
    [] l.called = "clean_data" /\ l.sub = "2" -> {"Sales", "Profit"}
    [] l.called = "visualize_data" -> PlotColumns(IntText[l.sub], l.a1, l.a2)
    [] OTHER -> {}

\* C4 as stated: an operation that references a column absent from the loaded
\* dataset returns normally (no exception escapes it) and the command loop
\* keeps running.
C4_AbsentColumnReported ==
  [][ (/\ pc = "running" /\ ~analyzer.data.isNone
       /\ \E col \in ReferencedColumns(last') : col \notin analyzer.data.cols) =>
        /\ last'.exc = "none"
        /\ pc' = "running" ]_vars

\* the options of the menu read after top-level selection choice
MenuSize(choice) ==
  CASE choice = "2" -> 5 [] choice = "3" -> 6 [] choice = "4" -> 4 [] choice = "6" -> 9
    [] OTHER -> 0

OutOfRange(text, n) == ~IsInt(text) \/ IntText[text] \notin 1..n

\* the iteration recorded in l read a selection that is no option of its menu
InvalidSelection(l) ==
  \/ OutOfRange(l.choice, 8)
  \/ l.sub # "" /\ OutOfRange(l.sub, MenuSize(l.choice))
  \/ l.op # "" /\ OutOfRange(l.op, 3)

InvalidReports ==
  {InvalidNumber, "Invalid choice! Please select a number between 1 and 8.",
   "Invalid choice! Please select a number between 1 and 6."}

\* C5 as stated: at every menu, a non-numeric or out-of-range selection is
\* reported as invalid and leaves the dataset and the chart handle unchanged.
C5_InvalidSelectionReported ==
  [][ (pc = "running" /\ InvalidSelection(last')) =>
        /\ last'.report \in InvalidReports
        /\ analyzer'.data = analyzer.data
        /\ analyzer'.plot = analyzer.plot ]_vars

\* the rows of df are the rows of the file at path, as read_csv reads them
\* (the Date column apart, which load_data may have parsed)
RowsOfFile(df, path) ==
  /\ path \in DOMAIN fs /\ fs[path].kind = "csv"
  /\ LET file == read_csv(fs[path]) IN
     /\ df.cols = file.cols
     /\ Len(df.rows) = Len(file.rows)
     /\ \A i \in 1..Len(df.rows) :
          /\ df.rows[i].idx = file.rows[i].idx
          /\ \A col \in df.cols \ {"Date"} : df.rows[i].c[col] = file.rows[i].c[col]

\* C6: right after a Load selection the session's chart is absent and its
\* dataset is absent or holds the rows of the file just named, nothing of
\* the dataset held before.
C6_LoadDiscardsSession ==
  [][ (pc = "running" /\ last'.choice = "1") =>
        /\ ~analyzer'.isNone
        /\ analyzer'.plot.isNone
        /\ analyzer'.data.isNone \/ RowsOfFile(analyzer'.data, last'.a1) ]_vars

\* a Load made while a chart (and so a dataset) was held
C6_Witness ==
  /\ last.choice = "1" /\ last.called = "__init__" /\ last.hadPlot
  /\ analyzer.plot.isNone

\* C9 as stated: a visualize call that fails to render leaves the chart
\* handle what it was before the call.
C9_VisualizeAllOrNothing ==
  [][ (last'.called = "visualize_data" /\ last'.exc # "none") =>
        analyzer'.plot = analyzer.plot ]_vars

\* C10: a save_chart that fails while a chart is held reports the failure
\* and leaves the chart handle as it was; the handle then stays until the
\* session is replaced, visualize is called or a save succeeds; and a
\* save_chart to a destination that can be written succeeds and clears it.
C10_FailedSaveKeepsChart ==
  [][ /\ (last'.called = "save_visualization" /\ ~analyzer.plot.isNone) =>
           IF Writable(last'.file, saved)
           THEN last'.wrote /\ last'.file \in saved'.files /\ analyzer'.plot.isNone
           ELSE /\ last'.report = SaveError /\ last'.exc = "none" /\ pc' = "running"
                /\ ~last'.wrote /\ saved'.files = saved.files
                /\ analyzer'.plot = analyzer.plot
      /\ (/\ ~analyzer.plot.isNone
          /\ last'.called \notin {"save_visualization", "visualize_data", "__init__"}) =>
           analyzer'.plot = analyzer.plot ]_vars

\* a save that failed with the chart still held
C10_Witness ==
  /\ last.called = "save_visualization" /\ last.report = SaveError
  /\ last.hadPlot /\ ~analyzer.plot.isNone

TargetColumns(df) == {"Sales", "Profit"} \cap df.cols

\* this step is clean_data(2)
FillMeanCall == last'.called = "clean_data" /\ last'.sub = "2"

\* this step is clean_data(2) right after a clean_data(2) that returned
SecondFillMeanCall ==
  /\ last.called = "clean_data" /\ last.sub = "2" /\ last.exc = "none"
  /\ FillMeanCall

\* C7 as stated: after clean(fill-mean) no missing value remains in Sales or
\* Profit, and a second call right after leaves the dataset unchanged.
C7_FillMeanLeavesNoNull ==
  [][ /\ (pc = "running" /\ FillMeanCall) =>
           \A col \in TargetColumns(analyzer'.data) : ~AnyNull(analyzer'.data, col)
      /\ SecondFillMeanCall => analyzer'.data = analyzer.data ]_vars

\* C7 amended: when neither Sales nor Profit holds text, clean(fill-mean)
\* returns and leaves no missing value in each of the two columns that has
\* at least one value (a column with every value missing stays so); and a
\* second call right after a call that returned leaves the dataset unchanged
\* and returns.
C7_FillMeanIdempotent ==
  [][ /\ (/\ pc = "running" /\ FillMeanCall
          /\ \A col \in TargetColumns(analyzer.data) : ~HasStr(analyzer.data, col)) =>
           /\ last'.exc = "none"
           /\ \A col \in TargetColumns(analyzer.data) :
                IF HasNum(analyzer.data, col)
                THEN ~AnyNull(analyzer'.data, col)
                ELSE Column(analyzer'.data, col) = Column(analyzer.data, col)
      /\ SecondFillMeanCall =>
           /\ analyzer'.data = analyzer.data
           /\ last'.exc = "none" ]_vars

\* clean_data(2) has filled a Sales field that the file left empty
C7_Witness ==
  /\ last.called = "clean_data" /\ last.sub = "2" /\ last.exc = "none"
  /\ "gen.csv" \in DOMAIN fs
  /\ "Sales" \in analyzer.data.cols
  /\ Len(analyzer.data.rows) = Len(fs["gen.csv"].rows)
  /\ \E i \in 1..Len(fs["gen.csv"].rows) :
       fs["gen.csv"].rows[i][HeaderPos(fs["gen.csv"].header, "Sales")] = ""
  /\ ~AnyNull(analyzer.data, "Sales")

\* this step is split_data on a column of the dataset
SplitCall ==
  /\ last'.called = "split_data"
  /\ ~analyzer.data.isNone /\ last'.a1 \in analyzer.data.cols

RECURSIVE SumLen(_, _)
SumLen(groups, keys) ==
  IF keys = {} THEN 0
  ELSE LET key == CHOOSE x \in keys : TRUE IN
       Len(groups[key]) + SumLen(groups, keys \ {key})

\* the places (key, position) of the sub-tables where the row labelled idx is
Places(groups, idx) ==
  {<<key, j>> \in UNION {{<<x, y>> : y \in 1..Len(groups[x])} : x \in DOMAIN groups} :
     groups[key][j].idx = idx}

\* C8 as stated: split(column) returns one entry per distinct value of the
\* column and the sub-tables partition the dataset: every row is in exactly
\* one sub-table, so the row counts sum to the dataset's row count.
C8_SplitPartitions ==
  [][ SplitCall =>
        /\ ~ret'.isNone
        /\ DOMAIN ret'.groups =
             {c \in Range(Column(analyzer.data, last'.a1)) : ~IsNull(c)}
        /\ \A i \in 1..Len(analyzer.data.rows) :
             Cardinality(Places(ret'.groups, analyzer.data.rows[i].idx)) = 1
        /\ SumLen(ret'.groups, DOMAIN ret'.groups) = Len(analyzer.data.rows) ]_vars

\* C8 amended: split(column) returns one entry per distinct non-missing
\* value of the column; the sub-table of a value holds exactly the rows with
\* that value; every row with a value is in exactly one sub-table and a row
\* whose value is missing is in none, so the row counts sum to the number of
\* rows with a value.
C8_SplitPartitionsValued ==
  [][ SplitCall =>
        LET df  == analyzer.data
            col == last'.a1
            g   == ret'.groups
        IN /\ ~ret'.isNone
           /\ analyzer' = analyzer
           /\ DOMAIN g = {c \in Range(Column(df, col)) : ~IsNull(c)}
           /\ \A key \in DOMAIN g : \A j \in 1..Len(g[key]) :
                /\ g[key][j].c[col] = key
                /\ \E i \in 1..Len(df.rows) : df.rows[i] = g[key][j]
           /\ \A i \in 1..Len(df.rows) :
                Cardinality(Places(g, df.rows[i].idx)) =
                  IF IsNull(df.rows[i].c[col]) THEN 0 ELSE 1
           /\ SumLen(g, DOMAIN g) =
                Cardinality({i \in 1..Len(df.rows) : ~IsNull(df.rows[i].c[col])}) ]_vars

\* split_data on a column with a value and a missing value: one sub-table
C8_Witness ==
  /\ last.called = "split_data" /\ ~ret.isNone
  /\ last.a1 \in analyzer.data.cols
  /\ Len(analyzer.data.rows) = 2
  /\ AnyNull(analyzer.data, last.a1)
  /\ Cardinality(DOMAIN ret.groups) = 1

====
